---- MODULE Spec2Model ----
(***************************************************************************)
(* A model of scraper.py: the source adapters, the PDF readability         *)
(* verifier, the seen-set store and the aggregation loop of main().        *)
(*                                                                         *)
(* Python strings are sequences of one-character strings, so that          *)
(* lower(), endswith(), replace(), split() and join() are computed and     *)
(* not assumed.  None is the one-element sequence <<"None">>, which is no  *)
(* string of characters.                                                   *)
(***************************************************************************)
EXTENDS Integers, Sequences, FiniteSets, TLC

(***************************************************************************)
(* Bounds of the model.                                                    *)
(***************************************************************************)
\* Largest number of records in one NASA response.
MaxNasaItems == 1
\* Largest number of records in one FAA response.
MaxFaaItems == 2
\* Largest number of records in one arXiv, OpenAlex or Brave response.
MaxExtraItems == 1

(***************************************************************************)
(* Program constants.                                                      *)
(***************************************************************************)
SummarySentences == 3
SampleChars == 500
TitleChars == 50

None == <<"None">>

\* Python truthiness of an optional string: None and "" are falsy.
Truthy(x) == x # None /\ x # <<>>

\* Python `a or b`.
Or(a, b) == IF Truthy(a) THEN a ELSE b

(***************************************************************************)
(* String literals of the program.                                         *)
(***************************************************************************)
NtrsHost == <<"h", "t", "t", "p", "s", ":", "/", "/", "n", "t", "r", "s", ".", "n", "a", "s", "a", ".", "g", "o", "v">>
NtrsCitations == NtrsHost \o <<"/", "c", "i", "t", "a", "t", "i", "o", "n", "s", "/">>
ArxivPdf == <<"h", "t", "t", "p", "s", ":", "/", "/", "a", "r", "x", "i", "v", ".", "o", "r", "g", "/", "p", "d", "f", "/">>
DotPdf == <<".", "p", "d", "f">>
Http == <<"h", "t", "t", "p">>
Ellipsis == <<".", ".", ".">>
SentenceSep == <<".", " ">>
NoAbstract == <<"N", "o", " ", "a", "b", "s", "t", "r", "a", "c", "t", " ", "a", "v", "a", "i", "l", "a", "b", "l", "e", ".">>
NoTitle == <<"N", "o", " ", "T", "i", "t", "l", "e">>
DownloadsDir == <<"d", "o", "w", "n", "l", "o", "a", "d", "s", "/">>
Forbidden == {"\\", "/", "*", "?", ":", "\"", "<", ">", "|"}
BraveQuery == "aerospace engineering structural analysis"
NasaRelevance == "structural analysis, fitting factors, composite fatigue"
ArxivRelevance == "structural analysis, fitting factors, composite fatigue (arXiv)"
OpenAlexRelevance == "Aerospace Engineering (OpenAlex)"
FaaRelevance == "Airworthiness Directives"

(***************************************************************************)
(* str methods.                                                            *)
(***************************************************************************)
UpperChars == <<"A", "B", "C", "D", "E", "F", "G", "H", "I", "J", "K", "L", "M", "N", "O", "P", "Q", "R", "S", "T", "U", "V", "W", "X", "Y", "Z">>
LowerChars == <<"a", "b", "c", "d", "e", "f", "g", "h", "i", "j", "k", "l", "m", "n", "o", "p", "q", "r", "s", "t", "u", "v", "w", "x", "y", "z">>

LowerChar(c) ==
  IF \E i \in 1..Len(UpperChars) : UpperChars[i] = c
  THEN LowerChars[CHOOSE i \in 1..Len(UpperChars) : UpperChars[i] = c]
  ELSE c

\* str.lower()
lower(s) == [i \in 1..Len(s) |-> LowerChar(s[i])]

\* str.endswith(suffix)
endswith(s, suffix) ==
  /\ Len(s) >= Len(suffix)
  /\ SubSeq(s, Len(s) - Len(suffix) + 1, Len(s)) = suffix

\* str.startswith(prefix)
startswith(s, prefix) ==
  /\ Len(s) >= Len(prefix)
  /\ SubSeq(s, 1, Len(prefix)) = prefix

\* s[:n]
Slice(s, n) == SubSeq(s, 1, IF Len(s) < n THEN Len(s) ELSE n)

\* str.replace(old, new) for a one-character old
RECURSIVE replace(_, _, _)
replace(s, old, new) ==
  IF s = <<>> THEN <<>>
  ELSE (IF Head(s) = old THEN new ELSE <<Head(s)>>) \o replace(Tail(s), old, new)

\* True when sep occurs in s at position i.
OccursAt(s, sep, i) ==
  /\ i + Len(sep) - 1 <= Len(s)
  /\ SubSeq(s, i, i + Len(sep) - 1) = sep

\* str.split(sep): the pieces between the non-overlapping occurrences of sep,
\* found from the left.
RECURSIVE split(_, _)
split(s, sep) ==
  IF \E i \in 1..Len(s) : OccursAt(s, sep, i)
  THEN LET i == CHOOSE k \in 1..Len(s) :
                  /\ OccursAt(s, sep, k)
                  /\ \A j \in 1..(k - 1) : ~OccursAt(s, sep, j)
       IN  <<SubSeq(s, 1, i - 1)>> \o split(SubSeq(s, i + Len(sep), Len(s)), sep)
  ELSE <<s>>

\* sep.join(parts)
RECURSIVE join(_, _)
join(parts, sep) ==
  IF parts = <<>> THEN <<>>
  ELSE IF Len(parts) = 1 THEN parts[1]
  ELSE parts[1] \o sep \o join(Tail(parts), sep)

\* re.sub(r'[\\/*?:"<>|]', "", title)
RECURSIVE strip_forbidden(_)
strip_forbidden(s) ==
  IF s = <<>> THEN <<>>
  ELSE (IF Head(s) \in Forbidden THEN <<>> ELSE <<Head(s)>>) \o strip_forbidden(Tail(s))

Range(s) == {s[i] : i \in 1..Len(s)}

\* All sequences over S of length at most n.
RECURSIVE SeqsUpTo(_, _)
SeqsUpTo(S, n) ==
  IF n = 0 THEN {<<>>}
  ELSE LET shorter == SeqsUpTo(S, n - 1)
       IN  shorter \cup {Append(q, x) : q \in shorter, x \in S}

(***************************************************************************)
(* Candidate records and the result of calling an adapter.                 *)
(***************************************************************************)
Candidate(title, url, abstract, source, relevance) ==
  [title |-> title, url |-> url, abstract |-> abstract, source |-> source,
   relevance |-> relevance]

\* What a call gives its caller: it raised, or it returned `results`.
Returned(results) == [raised |-> FALSE, results |-> results]
Raised == [raised |-> TRUE, results |-> <<>>]

\* The per-record steps of an adapter's loop: "keep" appends cand, "skip" is a
\* continue, "raise" is an exception no handler of the adapter catches.
Keep(cand) == [tag |-> "keep", cand |-> cand]
Skip == [tag |-> "skip", cand |-> Candidate(None, None, None, "", "")]
Raise == [tag |-> "raise", cand |-> Candidate(None, None, None, "", "")]

\* The loop over the records: an exception in any iteration leaves the
\* function; otherwise the kept records are returned in order.
Collect(steps) ==
  IF \E i \in 1..Len(steps) : steps[i].tag = "raise" THEN Raised
  ELSE LET kept == SelectSeq(steps, LAMBDA st : st.tag = "keep")
       IN  Returned([i \in 1..Len(kept) |-> kept[i].cand])

(***************************************************************************)
(* HTTP responses.  status is what requests.get / raise_for_status /       *)
(* response.json() make of the exchange; isdict tells whether the decoded  *)
(* JSON document is an object; results is its "results" array ([] when the *)
(* key is missing).                                                        *)
(***************************************************************************)
Response(status, isdict, results) ==
  [status |-> status, isdict |-> isdict, results |-> results]

FailureStatus == {"network_error", "http_error", "bad_json"}

(***************************************************************************)
(* Dates are modelled by what the adapters do with them: "none" (absent),  *)
(* "recent" (parses, within 7 days), "old" (parses, older than 7 days),    *)
(* "garbage" (the parser raises ValueError) and "aware" (parses to a       *)
(* timezone-aware datetime, whose comparison with the naive start_date     *)
(* raises TypeError).                                                      *)
(***************************************************************************)
DateOr(a, b) == IF a # "none" THEN a ELSE b

(***************************************************************************)
(* fetch_nasa_data.  A record: publicationDate is the first                *)
(* "publicationDate" among item["publications"], otherDate is              *)
(* distributionDate or submittedDate, has_pdf tells whether                *)
(* item["downloads"] has an application/pdf entry, link_pdf and            *)
(* link_original are the "pdf" and "original" keys of that entry's links   *)
(* (None when the key is absent).                                          *)
(***************************************************************************)
NasaItem(isdict, publicationDate, otherDate, title, abstract, has_pdf, link_pdf, link_original, id) ==
  [isdict |-> isdict, publicationDate |-> publicationDate, otherDate |-> otherDate,
   title |-> title, abstract |-> abstract, has_pdf |-> has_pdf,
   link_pdf |-> link_pdf, link_original |-> link_original, id |-> id]

nasa_pdf_url(item) ==
  LET found == IF item.has_pdf
               THEN IF item.link_pdf # None THEN item.link_pdf
                    ELSE IF item.link_original # None THEN item.link_original
                    ELSE None
               ELSE None
      absolute == IF Truthy(found) /\ ~startswith(found, Http)
                  THEN NtrsHost \o found
                  ELSE found
  IN  IF ~Truthy(absolute) THEN NtrsCitations \o item.id ELSE absolute

nasa_item(item) ==
  IF ~item.isdict THEN Raise
  ELSE LET pub_date_str == DateOr(item.publicationDate, item.otherDate)
       IN  IF pub_date_str = "aware" THEN Raise
           ELSE IF pub_date_str = "old" THEN Skip
           ELSE Keep(Candidate(IF item.title = None THEN NoTitle ELSE item.title,
                               nasa_pdf_url(item),
                               IF item.abstract = None THEN <<>> ELSE item.abstract,
                               "NASA", NasaRelevance))

fetch_nasa_data(response) ==
  IF response.status \in FailureStatus THEN Returned(<<>>)
  ELSE IF ~response.isdict THEN Raised
  ELSE Collect([i \in 1..Len(response.results) |-> nasa_item(response.results[i])])

(***************************************************************************)
(* fetch_faa_data.                                                         *)
(***************************************************************************)
FaaItem(isdict, title, abstract, description, pdf_url, html_url) ==
  [isdict |-> isdict, title |-> title, abstract |-> abstract,
   description |-> description, pdf_url |-> pdf_url, html_url |-> html_url]

faa_item(item) ==
  IF ~item.isdict THEN Raise
  ELSE Keep(Candidate(IF item.title = None THEN NoTitle ELSE item.title,
                      IF Truthy(item.pdf_url) THEN item.pdf_url ELSE item.html_url,
                      Or(item.abstract, item.description),
                      "FAA", FaaRelevance))

fetch_faa_data(response) ==
  IF response.status \in FailureStatus THEN Returned(<<>>)
  ELSE IF ~response.isdict THEN Raised
  ELSE Collect([i \in 1..Len(response.results) |-> faa_item(response.results[i])])

(***************************************************************************)
(* fetch_arxiv_data.  An entry of the parsed feed: pdf_href is the href of *)
(* the first link of type application/pdf, id the entry id, link the       *)
(* entry's link (None when absent).  feedparser does not raise on a        *)
(* malformed feed: it returns the entries it could read.                   *)
(***************************************************************************)
ArxivEntry(published, title, summary, pdf_href, id, link) ==
  [published |-> published, title |-> title, summary |-> summary,
   pdf_href |-> pdf_href, id |-> id, link |-> link]

\* entry.id.split('/')[-1]
last_segment(id) == LET parts == split(id, <<"/">>) IN parts[Len(parts)]

arxiv_entry(entry) ==
  IF entry.published = "old" THEN Skip
  ELSE LET pdf_url == IF ~Truthy(entry.pdf_href) /\ entry.id # None
                      THEN ArxivPdf \o last_segment(entry.id) \o DotPdf
                      ELSE entry.pdf_href
       IN  Keep(Candidate(replace(IF entry.title = None THEN NoTitle ELSE entry.title,
                                  "\n", <<" ">>),
                          Or(pdf_url, entry.link),
                          IF entry.summary = None THEN <<>> ELSE entry.summary,
                          "arXiv", ArxivRelevance))

fetch_arxiv_data(response) ==
  IF response.status \in FailureStatus \cup {"rate_limited"} THEN Returned(<<>>)
  ELSE Collect([i \in 1..Len(response.results) |-> arxiv_entry(response.results[i])])

(***************************************************************************)
(* fetch_openalex_data.                                                    *)
(***************************************************************************)
OpenAlexItem(isdict, publication_date, display_name, title, primary_pdf, best_oa_pdf, id) ==
  [isdict |-> isdict, publication_date |-> publication_date,
   display_name |-> display_name, title |-> title, primary_pdf |-> primary_pdf,
   best_oa_pdf |-> best_oa_pdf, id |-> id]

openalex_item(item) ==
  IF ~item.isdict THEN Raise
  ELSE IF item.publication_date = "old" THEN Skip
  ELSE LET pdf_url == IF Truthy(item.primary_pdf) THEN item.primary_pdf
                      ELSE IF Truthy(item.best_oa_pdf) THEN item.best_oa_pdf
                      ELSE None
       IN  Keep(Candidate(IF Truthy(item.display_name) THEN item.display_name
                          ELSE IF item.title = None THEN NoTitle ELSE item.title,
                          Or(pdf_url, item.id),
                          <<>>,
                          "OpenAlex", OpenAlexRelevance))

fetch_openalex_data(response) ==
  IF response.status \in FailureStatus THEN Returned(<<>>)
  ELSE IF ~response.isdict THEN Raised
  ELSE Collect([i \in 1..Len(response.results) |-> openalex_item(response.results[i])])

(***************************************************************************)
(* fetch_brave_data.  isdict is false when the document, or its "web"      *)
(* member, is not an object; results is data["web"]["results"].            *)
(***************************************************************************)
BraveItem(isdict, title, url, description) ==
  [isdict |-> isdict, title |-> title, url |-> url, description |-> description]

brave_item(item, query) ==
  IF ~item.isdict THEN Raise
  ELSE IF ~Truthy(item.url) THEN Skip
  ELSE Keep(Candidate(IF item.title = None THEN NoTitle ELSE item.title,
                      item.url,
                      IF item.description = None THEN <<>> ELSE item.description,
                      "Brave Search", query))

fetch_brave_data(query, response) ==
  IF response.status \in FailureStatus \cup {"forbidden"} THEN Returned(<<>>)
  ELSE IF ~response.isdict THEN Raised
  ELSE Collect([i \in 1..Len(response.results) |-> brave_item(response.results[i], query)])

(***************************************************************************)
(* verify_pdf_readability.  The response to the GET of the document:       *)
(* status as above, parses tells whether pypdf reads it, pages is the      *)
(* number of pages, text what extract_text() gives for the first page      *)
(* (None when it gives nothing).                                           *)
(***************************************************************************)
PdfResponse(status, parses, pages, text) ==
  [status |-> status, parses |-> parses, pages |-> pages, text |-> text]

Whitespace == {" ", "\n", "\r", "\t"}

\* len(text.strip()) > 0
has_text(text) == \E i \in 1..Len(text) : text[i] \notin Whitespace

verify_pdf_readability(response) ==
  IF response.status # "ok" THEN [readable |-> FALSE, sample |-> <<>>]
  ELSE IF ~response.parses THEN [readable |-> FALSE, sample |-> <<>>]
  ELSE IF response.pages > 0 /\ Truthy(response.text) /\ has_text(response.text)
       THEN [readable |-> TRUE, sample |-> Slice(response.text, SampleChars)]
       ELSE [readable |-> FALSE, sample |-> <<>>]

(***************************************************************************)
(* download_pdf: the files of downloads/ after the call.  A response       *)
(* "broken_stream" fails while the body is written, after the file was     *)
(* created.  A title of None makes re.sub raise, which the handler         *)
(* catches.                                                                *)
(***************************************************************************)
download_filename(title) ==
  DownloadsDir \o Slice(replace(strip_forbidden(title), " ", <<"_">>), TitleChars) \o DotPdf

download_pdf(url, title, status, files) ==
  IF title = None THEN files
  ELSE IF download_filename(title) \in files THEN files
  ELSE IF status \in {"ok", "broken_stream"} THEN files \cup {download_filename(title)}
  ELSE files

(***************************************************************************)
(* The seen-set store.  seen_ids.json is missing, holds text that is no    *)
(* JSON, or holds a JSON array, whose elements are `content`.              *)
(***************************************************************************)
SeenFile(kind, content) == [kind |-> kind, content |-> content]

load_nothing(file) == {}

load_seen_ids(file) ==
  IF file.kind = "valid" THEN Range(file.content) ELSE {}

\* The elements of a finite set, listed in one order.
RECURSIVE ListOf(_)
ListOf(S) ==
  IF S = {} THEN <<>>
  ELSE LET x == CHOOSE y \in S : TRUE IN <<x>> \o ListOf(S \ {x})

\* json.dump(list(seen_ids)).  The order of list(set) is not specified; the
\* model fixes one, since load_seen_ids() forgets the order.
save_seen_ids(ids) == SeenFile("valid", ListOf(ids))

(***************************************************************************)
(* The pieces of the body of the loop of main().                           *)
(***************************************************************************)
\* `if not url: continue`
url_missing_never(url) == FALSE

url_missing(url) == ~Truthy(url)

\* url.lower().endswith(".pdf")
is_pdf_url_case_sensitive(url) == endswith(url, DotPdf)

is_pdf_url(url) == endswith(lower(url), DotPdf)

\* The summary of the log entry.
summary_keeping_separator(abstract) ==
  IF Truthy(abstract)
  THEN LET sentences == split(replace(replace(abstract, "\r", <<>>), "\n", <<" ">>), SentenceSep)
           summary == join(Slice(sentences, SummarySentences), SentenceSep)
       IN  IF Len(sentences) > SummarySentences
           THEN summary \o <<".">> \o Ellipsis
           ELSE summary
  ELSE NoAbstract

summary_of(abstract) ==
  IF Truthy(abstract)
  THEN LET sentences == split(replace(replace(abstract, "\r", <<>>), "\n", <<" ">>), SentenceSep)
           summary == join(Slice(sentences, SummarySentences), SentenceSep)
       IN  IF Len(sentences) > SummarySentences THEN summary \o Ellipsis ELSE summary
  ELSE NoAbstract

\* The block appended to Research_Log.md (without its date).
log_entry(item) ==
  [title |-> item.title, url |-> item.url, relevance |-> item.relevance,
   summary |-> summary_of(item.abstract)]

\* seen_ids.add(url)
add_forgotten(seen, url) == seen

add_replacing(seen, url) == {url}

add_seen(seen, url) == seen \cup {url}

(***************************************************************************)
(* The inputs: what the upstream services can answer.                      *)
(***************************************************************************)
UrlLanding == NtrsCitations \o <<"7">>
RelPdf == <<"/", "d", ".", "P", "D", "F">>
UrlPdf == NtrsHost \o RelPdf
ArxivId == <<"h", "t", "t", "p", ":", "/", "/", "a", "r", "x", "i", "v", ".", "o", "r", "g", "/", "a", "b", "s", "/", "1">>
UrlArxivPdf == ArxivPdf \o <<"1">> \o DotPdf
UrlOpenAlex == <<"h", "t", "t", "p", "s", ":", "/", "/", "o", "p", "e", "n", "a", "l", "e", "x", ".", "o", "r", "g", "/", "W", "1">>
TitleWing == <<"W", "i", "n", "g">>
TitleSpar == <<"S", "p", "a", "r", ":", " ", "A">>
TitleAD1 == <<"A", "D", " ", "1">>
TitleAD2 == <<"A", "D", " ", "2">>
TitleGust == <<"G", "u", "s", "t", "\n", "s">>
Abs5 == <<"S", "1", ".", " ", "S", "2", ".", " ", "S", "3", ".", " ", "S", "4", ".", " ", "S", "5", ".">>
Abs2 == <<"A", ".", "\r", "\n", "B", ".", " ", "C">>
Abs4 == <<"P", ".", " ", "Q", ".", " ", "R", ".", " ", "S">>
PageText == <<"L", "i", "f", "t">>
ApiKey == <<"k">>

NasaItems ==
  { NasaItem(TRUE, "garbage", "none", TitleSpar, Abs5, TRUE, RelPdf, None, <<"8">>),
    NasaItem(TRUE, "none", "old", None, None, TRUE, None, UrlPdf, <<"9">>),
    NasaItem(TRUE, "aware", "recent", TitleWing, None, FALSE, None, None, <<"7">>) }

FaaItems ==
  { FaaItem(TRUE, TitleAD1, Abs2, None, <<>>, UrlLanding),
    FaaItem(TRUE, TitleAD2, None, Abs4, UrlPdf, UrlLanding),
    FaaItem(TRUE, None, None, None, None, None),
    FaaItem(TRUE, None, None, None, None, <<>>),
    FaaItem(FALSE, None, None, None, None, None) }

ArxivEntries ==
  { ArxivEntry("recent", TitleGust, Abs4, None, ArxivId, None),
    ArxivEntry("old", TitleGust, Abs4, UrlArxivPdf, ArxivId, None) }

OpenAlexItems ==
  { OpenAlexItem(TRUE, "garbage", TitleGust, None, None, None, UrlOpenAlex),
    OpenAlexItem(FALSE, "none", None, None, None, None, None) }

BraveItems ==
  { BraveItem(TRUE, TitleGust, UrlOpenAlex, Abs2),
    BraveItem(TRUE, TitleGust, None, Abs2),
    BraveItem(FALSE, None, None, None) }

Responses(statuses, items, n) ==
  {Response(st, TRUE, <<>>) : st \in statuses}
    \cup {Response("ok", FALSE, <<>>)}
    \cup {Response("ok", TRUE, q) : q \in SeqsUpTo(items, n)}

NasaResponses == Responses(FailureStatus, NasaItems, MaxNasaItems)
FaaResponses == Responses(FailureStatus, FaaItems, MaxFaaItems)
ArxivResponses == Responses(FailureStatus \cup {"rate_limited"}, ArxivEntries, MaxExtraItems)
OpenAlexResponses == Responses(FailureStatus, OpenAlexItems, MaxExtraItems)
BraveResponses == Responses(FailureStatus \cup {"forbidden"}, BraveItems, MaxExtraItems)

\* What one call of each adapter can give main().
NasaOutcomes == {fetch_nasa_data(r) : r \in NasaResponses}
FaaOutcomes == {fetch_faa_data(r) : r \in FaaResponses}
ArxivOutcomes == {fetch_arxiv_data(r) : r \in ArxivResponses}
OpenAlexOutcomes == {fetch_openalex_data(r) : r \in OpenAlexResponses}
BraveOutcomes == {fetch_brave_data(BraveQuery, r) : r \in BraveResponses}

PdfResponses ==
  { PdfResponse("network_error", FALSE, 0, None),
    PdfResponse("http_error", FALSE, 0, None),
    PdfResponse("ok", FALSE, 0, None),
    PdfResponse("ok", TRUE, 0, None),
    PdfResponse("ok", TRUE, 1, None),
    PdfResponse("ok", TRUE, 1, <<" ", "\n">>),
    PdfResponse("ok", TRUE, 1, PageText) }

DownloadStatuses == {"network_error", "http_error", "broken_stream", "ok"}

\* seen_ids.json before the first run.
InitialFiles ==
  { SeenFile("missing", <<>>), SeenFile("corrupt", <<>>),
    SeenFile("valid", <<UrlLanding, UrlLanding>>) }

(***************************************************************************)
(* State.  The files outlive a run; the other variables are the locals of  *)
(* main() and records of what the run did.                                 *)
(***************************************************************************)
VARIABLES
  pc,                 \* where main() is: "start", "faa", "arxiv", "openalex",
                      \* "reaggregate", "loop", "done", or "crashed" after an
                      \* uncaught exception
  download,           \* args.download
  seen_file,          \* seen_ids.json
  log,                \* Research_Log.md, the entries in order
  downloads,          \* the files of downloads/
  seen_ids, nasa_results, faa_results, arxiv_results, openalex_results,
  brave_api_key, brave_results, all_results, new_entries_count,
  idx,                \* position of the for loop in all_results
  loaded,             \* what load_seen_ids() returned in this run
  log0,               \* length of the log when the run started
  verify_calls,       \* the calls of verify_pdf_readability of this run
  download_calls,     \* the calls of download_pdf of this run
  saves,              \* the number of calls of save_seen_ids of this run
  replay,             \* the services answer as they did in the previous run
  prev                \* the adapters' outputs and the verifier's answers of
                      \* the previous run, kept when replay is set

files == <<seen_file, log, downloads>>
locals == <<seen_ids, nasa_results, faa_results, arxiv_results, openalex_results,
            brave_api_key, brave_results, all_results, new_entries_count, idx>>
records == <<loaded, log0, verify_calls, download_calls, saves>>
vars == <<pc, download, files, locals, records, replay, prev>>

NoPrev ==
  [nasa |-> <<>>, faa |-> <<>>, arxiv |-> <<>>, openalex |-> <<>>,
   key |-> None, brave |-> <<>>, verdicts |-> {}, seen |-> {}]

Init ==
  /\ pc = "start"
  /\ seen_ids = {}
  /\ nasa_results = <<>>
  /\ faa_results = <<>>
  /\ arxiv_results = <<>>
  /\ openalex_results = <<>>
  /\ brave_api_key = None
  /\ brave_results = <<>>
  /\ all_results = <<>>
  /\ new_entries_count = 0
  /\ idx = 1
  /\ loaded = {}
  /\ verify_calls = <<>>
  /\ download_calls = <<>>
  /\ saves = 0
  /\ download \in BOOLEAN
  /\ seen_file \in InitialFiles
  /\ log = <<>>
  /\ log0 = 0
  /\ downloads = {}
  /\ replay = FALSE
  /\ prev = NoPrev

(***************************************************************************)
(* main(), lines 437-443: load the seen-set, then call four adapters.      *)
(***************************************************************************)
FetchNasa ==
  /\ pc = "start"
  /\ \E out \in NasaOutcomes :
       /\ replay => out = Returned(prev.nasa)
       /\ IF out.raised
          THEN /\ pc' = "crashed"
               /\ UNCHANGED nasa_results
          ELSE /\ pc' = "faa"
               /\ nasa_results' = out.results
  /\ seen_ids' = load_seen_ids(seen_file)
  /\ loaded' = load_seen_ids(seen_file)
  /\ UNCHANGED <<download, files, faa_results, arxiv_results, openalex_results,
                 brave_api_key, brave_results, all_results, new_entries_count, idx,
                 log0, verify_calls, download_calls, saves, replay, prev>>

FetchFaa ==
  /\ pc = "faa"
  /\ \E out \in FaaOutcomes :
       /\ replay => out = Returned(prev.faa)
       /\ IF out.raised
          THEN /\ pc' = "crashed"
               /\ UNCHANGED faa_results
          ELSE /\ pc' = "arxiv"
               /\ faa_results' = out.results
  /\ UNCHANGED <<download, files, seen_ids, nasa_results, arxiv_results,
                 openalex_results, brave_api_key, brave_results, all_results,
                 new_entries_count, idx, records, replay, prev>>

FetchArxiv ==
  /\ pc = "arxiv"
  /\ \E out \in ArxivOutcomes :
       /\ replay => out = Returned(prev.arxiv)
       /\ IF out.raised
          THEN /\ pc' = "crashed"
               /\ UNCHANGED arxiv_results
          ELSE /\ pc' = "openalex"
               /\ arxiv_results' = out.results
  /\ UNCHANGED <<download, files, seen_ids, nasa_results, faa_results,
                 openalex_results, brave_api_key, brave_results, all_results,
                 new_entries_count, idx, records, replay, prev>>

FetchOpenAlex ==
  /\ pc = "openalex"
  /\ \E out \in OpenAlexOutcomes :
       /\ replay => out = Returned(prev.openalex)
       /\ IF out.raised
          THEN /\ pc' = "crashed"
               /\ UNCHANGED openalex_results
          ELSE /\ pc' = "reaggregate"
               /\ openalex_results' = out.results
  /\ UNCHANGED <<download, files, seen_ids, nasa_results, faa_results,
                 arxiv_results, brave_api_key, brave_results, all_results,
                 new_entries_count, idx, records, replay, prev>>

(***************************************************************************)
(* main(), lines 445-460, one step: all_results is assigned three times    *)
(* and only the last value is read.  The seen-set is loaded again, NASA    *)
(* and FAA are fetched again, Brave is fetched when BRAVE_API_KEY is set.  *)
(* The first exception among the three calls ends the process.             *)
(***************************************************************************)
Reaggregate ==
  /\ pc = "reaggregate"
  /\ \E nasa \in NasaOutcomes, faa \in FaaOutcomes, key \in {None, ApiKey},
        brave \in BraveOutcomes :
       LET merged_first == nasa_results \o faa_results \o arxiv_results \o openalex_results
           brave_out == IF Truthy(key) THEN brave ELSE Returned(<<>>)
           merged_second == nasa.results \o faa.results \o brave_out.results
           merged_last == nasa.results \o faa.results
       IN  /\ replay => /\ nasa = Returned(prev.nasa)
                        /\ faa = Returned(prev.faa)
                        /\ key = prev.key
                        /\ brave_out = Returned(prev.brave)
           /\ ~Truthy(key) => brave = Returned(<<>>)
           /\ seen_ids' = load_seen_ids(seen_file)
           /\ IF nasa.raised
              THEN /\ pc' = "crashed"
                   /\ all_results' = merged_first
                   /\ UNCHANGED <<nasa_results, faa_results, brave_api_key, brave_results>>
              ELSE IF faa.raised
              THEN /\ pc' = "crashed"
                   /\ all_results' = merged_first
                   /\ nasa_results' = nasa.results
                   /\ UNCHANGED <<faa_results, brave_api_key, brave_results>>
              ELSE IF brave_out.raised
              THEN /\ pc' = "crashed"
                   /\ all_results' = merged_first
                   /\ nasa_results' = nasa.results
                   /\ faa_results' = faa.results
                   /\ brave_api_key' = key
                   /\ UNCHANGED brave_results
              ELSE /\ pc' = "loop"
                   /\ nasa_results' = nasa.results
                   /\ faa_results' = faa.results
                   /\ brave_api_key' = key
                   /\ brave_results' = brave_out.results
                   /\ all_results' = merged_last
  /\ new_entries_count' = 0
  /\ UNCHANGED <<download, files, arxiv_results, openalex_results, idx, records,
                 replay, prev>>

(***************************************************************************)
(* main(), lines 462-516: one iteration of the for loop.                   *)
(***************************************************************************)
ProcessItem ==
  /\ pc = "loop"
  /\ idx <= Len(all_results)
  /\ idx' = idx + 1
  /\ LET item == all_results[idx]
         url == item.url
     IN  IF url_missing(url)
         THEN UNCHANGED <<files, seen_ids, new_entries_count, verify_calls, download_calls>>
         ELSE IF url \in seen_ids
         THEN UNCHANGED <<files, seen_ids, new_entries_count, verify_calls, download_calls>>
         ELSE \E response \in PdfResponses, status \in DownloadStatuses :
                LET is_pdf == is_pdf_url(url)
                    readable == IF is_pdf
                                THEN verify_pdf_readability(response).readable
                                ELSE TRUE
                    call == [url |-> url, readable |-> readable]
                IN  /\ (replay /\ is_pdf) => call \in prev.verdicts
                    /\ verify_calls' = IF is_pdf THEN Append(verify_calls, call)
                                       ELSE verify_calls
                    /\ IF ~readable
                       THEN UNCHANGED <<files, seen_ids, new_entries_count, download_calls>>
                       ELSE /\ log' = Append(log, log_entry(item))
                            /\ seen_ids' = add_seen(seen_ids, url)
                            /\ new_entries_count' = new_entries_count + 1
                            /\ IF download /\ is_pdf
                               THEN /\ download_calls' = Append(download_calls, url)
                                    /\ downloads' = download_pdf(url, item.title, status, downloads)
                               ELSE UNCHANGED <<download_calls, downloads>>
                            /\ UNCHANGED seen_file
  /\ UNCHANGED <<pc, download, nasa_results, faa_results, arxiv_results,
                 openalex_results, brave_api_key, brave_results, all_results,
                 loaded, log0, saves, replay, prev>>

(***************************************************************************)
(* main(), lines 518-519: after the loop, save the seen-set.               *)
(***************************************************************************)
SaveSeen ==
  /\ pc = "loop"
  /\ idx > Len(all_results)
  /\ seen_file' = save_seen_ids(seen_ids)
  /\ saves' = saves + 1
  /\ pc' = "done"
  /\ UNCHANGED <<download, log, downloads, locals, loaded, log0, verify_calls,
                 download_calls, replay, prev>>

(***************************************************************************)
(* The script is run again: a new process, with the files the last one     *)
(* left.                                                                   *)
(***************************************************************************)
StartRun ==
  /\ pc \in {"done", "crashed"}
  /\ pc' = "start"
  /\ seen_ids' = {}
  /\ nasa_results' = <<>>
  /\ faa_results' = <<>>
  /\ arxiv_results' = <<>>
  /\ openalex_results' = <<>>
  /\ brave_api_key' = None
  /\ brave_results' = <<>>
  /\ all_results' = <<>>
  /\ new_entries_count' = 0
  /\ idx' = 1
  /\ loaded' = {}
  /\ verify_calls' = <<>>
  /\ download_calls' = <<>>
  /\ saves' = 0
  /\ download' \in BOOLEAN
  /\ log0' = Len(log)
  /\ replay' = FALSE
  /\ prev' = NoPrev
  /\ UNCHANGED files

Next ==
  \/ FetchNasa
  \/ FetchFaa
  \/ FetchArxiv
  \/ FetchOpenAlex
  \/ Reaggregate
  \/ ProcessItem
  \/ SaveSeen
  \/ StartRun

Spec == Init /\ [][Next]_vars

(***************************************************************************)
(* Two runs in a row with identical adapter outputs: after a first run     *)
(* that ended normally the script is run once more, and every adapter and  *)
(* the verifier answer the second run as they answered the first.          *)
(***************************************************************************)
RunAgain ==
  /\ pc = "done"
  /\ ~replay
  /\ pc' = "start"
  /\ seen_ids' = {}
  /\ nasa_results' = <<>>
  /\ faa_results' = <<>>
  /\ arxiv_results' = <<>>
  /\ openalex_results' = <<>>
  /\ brave_api_key' = None
  /\ brave_results' = <<>>
  /\ all_results' = <<>>
  /\ new_entries_count' = 0
  /\ idx' = 1
  /\ loaded' = {}
  /\ verify_calls' = <<>>
  /\ download_calls' = <<>>
  /\ saves' = 0
  /\ download' \in BOOLEAN
  /\ log0' = Len(log)
  /\ replay' = TRUE
  /\ prev' = [nasa |-> nasa_results, faa |-> faa_results, arxiv |-> arxiv_results,
              openalex |-> openalex_results, key |-> brave_api_key,
              brave |-> brave_results, verdicts |-> Range(verify_calls),
              seen |-> seen_ids]
  /\ UNCHANGED files

NextTwice ==
  \/ FetchNasa
  \/ FetchFaa
  \/ FetchArxiv
  \/ FetchOpenAlex
  \/ Reaggregate
  \/ ProcessItem
  \/ SaveSeen
  \/ RunAgain

SpecTwice == Init /\ [][NextTwice]_vars

(***************************************************************************)
(* The vocabulary of the properties, stated without the operators of the   *)
(* program.                                                                *)
(***************************************************************************)
\* The url is None or the empty string.
AbsentUrl(url) == url = None \/ url = <<>>

\* The url ends in ".pdf", in any mix of upper and lower case.
IsPdfLink(url) ==
  /\ Len(url) >= 4
  /\ url[Len(url) - 3] = "."
  /\ url[Len(url) - 2] \in {"p", "P"}
  /\ url[Len(url) - 1] \in {"d", "D"}
  /\ url[Len(url)] \in {"f", "F"}

\* The urls stored in seen_ids.json.
StoredUrls(file) ==
  IF file.kind = "valid" THEN {file.content[i] : i \in DOMAIN file.content} ELSE {}

\* The positions of the log entries appended in this run.
NewEntries == (log0 + 1)..Len(log)

\* The urls of the log entries appended in this run.
NewUrls == {log[i].url : i \in NewEntries}

\* The outputs of the five adapters in the order of the merge.
AdapterOutputs ==
  <<nasa_results, faa_results, arxiv_results, openalex_results, brave_results>>

\* The for loop is about to process a candidate.
AtCandidate == pc = "loop" /\ idx <= Len(all_results)

\* This step appends a log entry for url u and marks u seen.
Accepts(u) ==
  /\ Len(log') = Len(log) + 1
  /\ SubSeq(log', 1, Len(log)) = log
  /\ log'[Len(log')].url = u
  /\ seen_ids' = seen_ids \cup {u}
  /\ new_entries_count' = new_entries_count + 1

\* This step leaves the log, the seen-set and the count as they are.
Drops ==
  /\ log' = log
  /\ seen_ids' = seen_ids
  /\ new_entries_count' = new_entries_count

(***************************************************************************)
(* C1.  The list that enters the loop is the concatenation of the outputs  *)
(* of all five adapters, and every candidate of any adapter whose url is   *)
(* present, was not seen before the run and is no .pdf link has been       *)
(* accepted when the run ends.                                             *)
(***************************************************************************)
C1_AllSourcesEnterLoop ==
  /\ pc \in {"loop", "done"} =>
       all_results = nasa_results \o faa_results \o arxiv_results
                       \o openalex_results \o brave_results
  /\ pc = "done" =>
       \A k \in 1..5 : \A i \in 1..Len(AdapterOutputs[k]) :
         LET u == AdapterOutputs[k][i].url
         IN  (~AbsentUrl(u) /\ u \notin loaded /\ ~IsPdfLink(u))
               => (u \in seen_ids /\ u \in NewUrls)

(***************************************************************************)
(* C2.  In a run that repeats the previous run's adapter outputs and       *)
(* verifier answers, nothing is accepted: the count stays 0, no log entry  *)
(* is appended, and the seen-set saved at the end is the one the previous  *)
(* run saved.                                                              *)
(***************************************************************************)
C2_SecondRunAcceptsNothing ==
  replay =>
    /\ new_entries_count = 0
    /\ Len(log) = log0
    /\ pc = "done" => StoredUrls(seen_file) = prev.seen

\* A repeated run has ended, after a first run that accepted a candidate and
\* rejected an unreadable PDF.
C2_Witness ==
  /\ replay
  /\ pc = "done"
  /\ Len(log) > 0
  /\ all_results # <<>>
  /\ \E c \in prev.verdicts : ~c.readable

(***************************************************************************)
(* C3.  A candidate with a url that is present and not yet seen: when the  *)
(* url ends in .pdf in any case, the verifier is called once for it and    *)
(* the candidate is accepted if and only if the verifier finds it          *)
(* readable; otherwise the verifier is not called and the candidate is     *)
(* accepted.                                                               *)
(***************************************************************************)
C3_ReadabilityGating ==
  [][ (AtCandidate /\ ~AbsentUrl(all_results[idx].url)
         /\ all_results[idx].url \notin seen_ids)
      => LET u == all_results[idx].url
         IN  IF IsPdfLink(u)
             THEN /\ Len(verify_calls') = Len(verify_calls) + 1
                  /\ verify_calls'[Len(verify_calls')].url = u
                  /\ verify_calls'[Len(verify_calls')].readable => Accepts(u)
                  /\ ~verify_calls'[Len(verify_calls')].readable => Drops
             ELSE /\ verify_calls' = verify_calls
                  /\ Accepts(u) ]_vars

\* One run has rejected an unreadable PDF, accepted a readable one and
\* accepted a link that is no PDF.
C3_Witness ==
  /\ \E i \in 1..Len(verify_calls) : ~verify_calls[i].readable
  /\ \E i \in 1..Len(verify_calls) :
       verify_calls[i].readable /\ verify_calls[i].url \in NewUrls
  /\ \E u \in NewUrls : ~IsPdfLink(u)

(***************************************************************************)
(* C4.  A url that two adapters return, that was not seen before the run   *)
(* and that the readability gate lets through, has exactly one log entry   *)
(* in the run, with the title, relevance and summary of the record of the  *)
(* first of the adapters in the merge order.                               *)
(***************************************************************************)
C4_FirstAdapterRecorded ==
  pc = "done" =>
    \A k \in 1..5 : \A i \in 1..Len(AdapterOutputs[k]) :
      LET u == AdapterOutputs[k][i].url
          holders == {a \in 1..5 : \E j \in 1..Len(AdapterOutputs[a]) :
                                     AdapterOutputs[a][j].url = u}
          first == CHOOSE a \in holders : \A b \in holders : a <= b
          at == CHOOSE j \in 1..Len(AdapterOutputs[first]) :
                  /\ AdapterOutputs[first][j].url = u
                  /\ \A h \in 1..(j - 1) : AdapterOutputs[first][h].url # u
          record == AdapterOutputs[first][at]
          calls == {c \in Range(verify_calls) : c.url = u}
          passes == IF IsPdfLink(u) THEN calls # {} /\ \A c \in calls : c.readable
                    ELSE TRUE
          entries == {e \in NewEntries : log[e].url = u}
      IN  (Cardinality(holders) >= 2 /\ ~AbsentUrl(u) /\ u \notin loaded /\ passes)
            => /\ Cardinality(entries) = 1
               /\ \A e \in entries :
                    /\ log[e].title = record.title
                    /\ log[e].relevance = record.relevance
                    /\ log[e].summary = summary_of(record.abstract)

(***************************************************************************)
(* C5.  The set of urls stored in seen_ids.json never loses an element,    *)
(* and within a run the in-memory seen_ids never loses an element.         *)
(***************************************************************************)
C5_SeenSetMonotone ==
  [][ /\ StoredUrls(seen_file) \subseteq StoredUrls(seen_file')
      /\ pc' # "start" => seen_ids \subseteq seen_ids' ]_vars

\* A later run, started from a seen-set that an earlier run saved, has added a
\* url and saved.
C5_Witness ==
  /\ pc = "done"
  /\ log0 > 0
  /\ loaded # {}
  /\ new_entries_count > 0
  /\ StoredUrls(seen_file) # loaded

(***************************************************************************)
(* C6.  The summary of an abstract of more than three sentences.           *)
(***************************************************************************)
Abs5Summary == <<"S", "1", ".", " ", "S", "2", ".", " ", "S", "3", ".", ".", ".">>
Abs5SummaryWithPeriod == <<"S", "1", ".", " ", "S", "2", ".", " ", "S", "3", ".", ".", ".", ".">>

\* The abstract on one line: carriage returns removed, newlines made spaces.
OneLine(abstract) == replace(replace(abstract, "\r", <<>>), "\n", <<" ">>)

\* The positions where a sentence ends: a period followed by a space.
SentenceEnds(text) ==
  {i \in 1..(Len(text) - 1) : text[i] = "." /\ text[i + 1] = " "}

\* The position of the period that ends the third sentence.
ThirdEnd(text) ==
  CHOOSE p \in SentenceEnds(text) :
    Cardinality({q \in SentenceEnds(text) : q < p}) = 2

\* This step appends a log entry for the candidate at idx.
AppendsEntry == AtCandidate /\ Len(log') = Len(log) + 1

\* C6 as stated: the summary of "S1. S2. S3. S4. S5." is "S1. S2. S3....",
\* the third sentence keeping its period before the three dots.
C6_SummaryKeepsPeriod ==
  [][ (AppendsEntry /\ all_results[idx].abstract = Abs5)
      => log'[Len(log')].summary = Abs5SummaryWithPeriod ]_vars

\* C6 as amended: when the abstract has more than three sentences, the
\* summary is the text before the period that ends the third sentence,
\* followed by three dots; the summary of "S1. S2. S3. S4. S5." is
\* "S1. S2. S3...".
C6_SummaryTruncation ==
  [][ (AppendsEntry /\ Truthy(all_results[idx].abstract))
      => LET text == OneLine(all_results[idx].abstract)
             summary == log'[Len(log')].summary
         IN  /\ Cardinality(SentenceEnds(text)) >= 3
                  => summary = SubSeq(text, 1, ThirdEnd(text) - 1) \o Ellipsis
             /\ Cardinality(SentenceEnds(text)) < 3 => summary = text
             /\ all_results[idx].abstract = Abs5 => summary = Abs5Summary ]_vars

\* The log of this run holds the summary of the five-sentence abstract and
\* the summary of a shorter one.
C6_Witness ==
  /\ \E e \in NewEntries : log[e].summary = Abs5Summary
  /\ \E e \in NewEntries : log[e].summary = <<"A", ".", " ", "B", ".", " ", "C">>

(***************************************************************************)
(* C7.  No failure of a source makes an adapter raise: main() never ends   *)
(* by an exception of an adapter.                                          *)
(***************************************************************************)
C7_AdaptersNeverRaise == pc # "crashed"

(***************************************************************************)
(* C8.  Every run, however it ends, has saved the seen-set exactly once,   *)
(* and the saved set is the loaded set united with the urls accepted in    *)
(* the run.                                                                *)
(***************************************************************************)
C8_SavedOncePerRun ==
  /\ pc \in {"done", "crashed"} =>
       /\ saves = 1
       /\ StoredUrls(seen_file) = loaded \cup NewUrls
  /\ pc \notin {"done", "crashed"} => saves = 0

(***************************************************************************)
(* C9.  A candidate whose url is None or empty is passed over: the         *)
(* verifier and the downloader are not called, the files, the seen-set     *)
(* and the count stay as they are, and the loop goes on to the next        *)
(* candidate.                                                              *)
(***************************************************************************)
C9_MissingUrlDropped ==
  [][ (AtCandidate /\ AbsentUrl(all_results[idx].url))
      => /\ pc' = "loop"
         /\ idx' = idx + 1
         /\ all_results' = all_results
         /\ UNCHANGED <<seen_file, log, downloads, seen_ids, new_entries_count,
                        verify_calls, download_calls, saves>> ]_vars

\* A candidate without a url was passed over and a later candidate of the
\* same run was accepted.
C9_Witness ==
  /\ pc \in {"loop", "done"}
  /\ \E i \in 1..Len(all_results) : \E j \in 1..Len(all_results) :
       /\ i < j
       /\ j < idx
       /\ AbsentUrl(all_results[i].url)
       /\ all_results[j].url \in NewUrls

====
